---- MODULE Spec2Model ----
(***************************************************************************)
(* Model of appmetrica_logs_api/client.py: the AppMetrica export client.   *)
(*                                                                         *)
(* One behaviour is the life of one client instance and one export call:   *)
(* construction (Init), the synchronous part of export up to the dispatch  *)
(* (Export), then the retry loop of _make_request, one GET per step        *)
(* (HttpGet) and one blocking sleep per step (Sleep), and the decoding of  *)
(* the 200 response by export.                                             *)
(*                                                                         *)
(* Python values: a str is a TLA+ string, a dict is a function from its    *)
(* keys, a list is a sequence, an optional value is None or Some(v).       *)
(***************************************************************************)
EXTENDS Integers, Sequences, FiniteSets, TLC

VARIABLES
    app_token,      \* self.__app_token
    api_endpoint,   \* self._api_endpoint
    pc,             \* position of the export call
    call,           \* the arguments of the export call
    request,        \* url, params, headers handed to http_request
    export_format,  \* local of export: the popped export_format
    retry_count,    \* local of _make_request
    response,       \* the last response received (None before the first)
    sent,           \* history: every GET sent, in order
    outcomes,       \* history: what each GET produced, in order
    sleeps,         \* history: every sleep duration, in order
    result,         \* the value export returned
    error           \* the exception export raised

vars == <<app_token, api_endpoint, pc, call, request, export_format,
          retry_count, response, sent, outcomes, sleeps, result, error>>

----------------------------------------------------------------------------
(* Bounds of the model. *)

\* The environment answers at most this many preparing responses per call.
MaxRetries == 4

\* The same, per call, when two calls run concurrently.
MaxConcRetries == 2

----------------------------------------------------------------------------
(* Python values. *)

None == [isNone |-> TRUE]
Some(v) == [isNone |-> FALSE, val |-> v]

\* dict.update / {**a, **b}: the right operand wins on a common key.
Update(d, e) ==
    [k \in (DOMAIN d) \cup (DOMAIN e) |-> IF k \in DOMAIN e THEN e[k] ELSE d[k]]

\* The dict left after dict.pop(key, default).
Without(d, key) == [k \in (DOMAIN d) \ {key} |-> d[k]]

\* The value of dict.pop(key, default).
Pop(d, key, default) == IF key \in DOMAIN d THEN d[key] ELSE default

EmptyDict == [k \in {} |-> ""]

\* Truth value of an optional str: None and '' are falsy.
Truthy(x) == IF x.isNone THEN FALSE ELSE x.val # ""

\* Truth value of an optional datetime: only None is falsy.
TruthyDatetime(x) == ~x.isNone

\* ','.join(list)
RECURSIVE Join(_)
Join(fs) ==
    IF Len(fs) = 0 THEN ""
    ELSE IF Len(fs) = 1 THEN fs[1]
    ELSE fs[1] \o "," \o Join(Tail(fs))

\* Zero-padded decimal of width 2, as %m %d %H %M %S print it.
Pad2(n) == IF n < 10 THEN "0" \o ToString(n) ELSE ToString(n)

\* datetime.strftime('%Y-%m-%d %H:%M:%S'), years of four digits.
strftime(dt) ==
    ToString(dt.year) \o "-" \o Pad2(dt.month) \o "-" \o Pad2(dt.day) \o " "
        \o Pad2(dt.hour) \o ":" \o Pad2(dt.minute) \o ":" \o Pad2(dt.second)

\* Python's a ^ b on non-negative ints: bitwise exclusive or.
RECURSIVE Xor(_, _)
Xor(a, b) ==
    IF a = 0 THEN b
    ELSE IF b = 0 THEN a
    ELSE (((a % 2) + (b % 2)) % 2) + 2 * Xor(a \div 2, b \div 2)

----------------------------------------------------------------------------
(* Module-level data of client.py. *)

EVENTS == "events"
INSTALLATIONS == "installations"

\* EventsSchema.model_fields.keys(), in declaration order.
EventsSchema == <<"event_name", "event_timestamp", "os_name">>

\* InstallationsSchema.model_fields.keys(), in declaration order.
InstallationsSchema == <<"install_datetime", "os_name">>

RESOURCES_SCHEMA ==
    [r \in {EVENTS, INSTALLATIONS} |->
        IF r = EVENTS THEN EventsSchema ELSE InstallationsSchema]

ApiEndpoint == "https://api.appmetrica.yandex.ru/logs/v1/export"

----------------------------------------------------------------------------
(* AppMetrica.export, lines 68-100: everything before the dispatch. *)

ClientError(args) == [type |-> "AppmetricaClientError", args |-> args]
ApiError(args) == [type |-> "AppmetricaApiError", args |-> args]

\* Line 73: '/'.join([endpoint, f'{resource}']) + f'.{export_format}'
ApiUrl(endpoint, resource, fmt) == endpoint \o "/" \o resource \o "." \o fmt

\* ResolveFields without the else branch: an unregistered resource gets no
\* default and goes on.
ResolveFields_NoGate(resource, fields) ==
    [raised |-> FALSE,
     fields |-> IF ~fields.isNone THEN Join(fields.val)
                ELSE IF resource \in DOMAIN RESOURCES_SCHEMA
                THEN Join(RESOURCES_SCHEMA[resource])
                ELSE ""]

\* ResolveFields that always takes the registry's fields.
ResolveFields_IgnoreExplicit(resource, fields) ==
    IF resource \in DOMAIN RESOURCES_SCHEMA
    THEN [raised |-> FALSE, fields |-> Join(RESOURCES_SCHEMA[resource])]
    ELSE [raised |-> TRUE,
          error |-> ClientError(<<"resource not available for export", resource>>)]

\* Lines 75-78: the fields parameter, or the error of the else branch
\* (message 'Resurs {resource} ne dostupen dlya eksporta.').
ResolveFields(resource, fields) ==
    IF resource \in DOMAIN RESOURCES_SCHEMA
    THEN [raised |-> FALSE,
          fields |-> IF fields.isNone THEN Join(RESOURCES_SCHEMA[resource])
                     ELSE Join(fields.val)]
    ELSE [raised |-> TRUE,
          error |-> ClientError(<<"resource not available for export", resource>>)]

\* BuildHeaders testing the options against None instead of their truth.
BuildHeaders_IsNotNone(kwargs) ==
    LET cache_control == Pop(kwargs, "cache_control", None)
        accept_encoding == Pop(kwargs, "accept_encoding", None)
        h1 == IF ~cache_control.isNone
              THEN Update(EmptyDict, [k \in {"Cache-Control"} |-> cache_control.val])
              ELSE EmptyDict
    IN  IF ~accept_encoding.isNone
        THEN Update(h1, [k \in {"Accept-Encoding"} |-> accept_encoding.val])
        ELSE h1

\* Lines 80-86: the headers built by export; a falsy option adds no header.
BuildHeaders(kwargs) ==
    LET cache_control == Pop(kwargs, "cache_control", None)
        accept_encoding == Pop(kwargs, "accept_encoding", None)
        h1 == IF Truthy(cache_control)
              THEN Update(EmptyDict, [k \in {"Cache-Control"} |-> cache_control.val])
              ELSE EmptyDict
    IN  IF Truthy(accept_encoding)
        THEN Update(h1, [k \in {"Accept-Encoding"} |-> accept_encoding.val])
        ELSE h1

\* RestKwargs when line 71 reads export_format with get instead of pop.
RestKwargs_FormatKept(kwargs) ==
    Without(Without(kwargs, "cache_control"), "accept_encoding")

\* kwargs as left by the three pops of lines 71, 82 and 85.
RestKwargs(kwargs) ==
    Without(Without(Without(kwargs, "export_format"), "cache_control"),
            "accept_encoding")

\* Lines 88-92: {'application_id': ..., 'fields': ..., **kwargs}
BuildParams(application_id, fields, kwargs) ==
    Update([k \in {"application_id", "fields"} |->
               IF k = "application_id" THEN application_id ELSE fields],
           [k \in DOMAIN kwargs |-> kwargs[k].val])

\* DateRule without the else branch of line 98: an incomplete range adds
\* no parameter and raises nothing.
DateRule_NoRaise(resource, params, date_from, date_to) ==
    IF resource \notin {"profiles", "push_tokens"}
          /\ TruthyDatetime(date_from) /\ TruthyDatetime(date_to)
    THEN [raised |-> FALSE,
          params |-> Update(params,
              [k \in {"date_since", "date_until"} |->
                  IF k = "date_since" THEN strftime(date_from.val)
                  ELSE strftime(date_to.val)])]
    ELSE [raised |-> FALSE, params |-> params]

\* Lines 94-100: the date range rule (message 'Dlya resursa {resource}
\* trebuetsya ukazat diapazon dat - parametry date_from i date_to').
DateRule(resource, params, date_from, date_to) ==
    IF resource \notin {"profiles", "push_tokens"}
    THEN IF TruthyDatetime(date_from) /\ TruthyDatetime(date_to)
         THEN [raised |-> FALSE,
               params |-> Update(params,
                   [k \in {"date_since", "date_until"} |->
                       IF k = "date_since" THEN strftime(date_from.val)
                       ELSE strftime(date_to.val)])]
         ELSE [raised |-> TRUE,
               error |-> ClientError(<<"date range required", resource>>)]
    ELSE [raised |-> FALSE, params |-> params]

\* Assemble with the date range rule applied before the registry check.
Assemble_DateRuleFirst(endpoint, c) ==
    LET fmt == Pop(c.kwargs, "export_format", Some("csv")).val
        api_url == ApiUrl(endpoint, c.resource, fmt)
        dr0 == DateRule(c.resource, EmptyDict, c.date_from, c.date_to)
        fr == ResolveFields(c.resource, c.fields)
    IN  IF dr0.raised THEN [raised |-> TRUE, error |-> dr0.error]
        ELSE IF fr.raised THEN [raised |-> TRUE, error |-> fr.error]
        ELSE LET headers == BuildHeaders(c.kwargs)
                 params == BuildParams(c.application_id, fr.fields,
                                       RestKwargs(c.kwargs))
                 dr == DateRule(c.resource, params, c.date_from, c.date_to)
             IN  [raised |-> FALSE, export_format |-> fmt,
                  url |-> api_url, params |-> dr.params,
                  headers |-> headers]

\* Lines 68-100 in order: format, url, fields, headers, params, date rule.
Assemble(endpoint, c) ==
    LET fmt == Pop(c.kwargs, "export_format", Some("csv")).val
        api_url == ApiUrl(endpoint, c.resource, fmt)
        fr == ResolveFields(c.resource, c.fields)
    IN  IF fr.raised THEN [raised |-> TRUE, error |-> fr.error]
        ELSE LET headers == BuildHeaders(c.kwargs)
                 params == BuildParams(c.application_id, fr.fields,
                                       RestKwargs(c.kwargs))
                 dr == DateRule(c.resource, params, c.date_from, c.date_to)
             IN  IF dr.raised THEN [raised |-> TRUE, error |-> dr.error]
                 ELSE [raised |-> FALSE, export_format |-> fmt,
                       url |-> api_url, params |-> dr.params,
                       headers |-> headers]

----------------------------------------------------------------------------
(* AppMetrica._make_request, lines 33-53. *)

base_delay == 10

\* Delay with ^ read as exponentiation: base_delay * 2 ** retry_count.
Delay_Exponential(n) == base_delay * (2 ^ n)

\* Line 49: base_delay * 2 ^ retry_count; * binds tighter than ^ (xor).
Delay(n) == Xor(base_delay * 2, n)

\* Lines 36-38: headers.update({'Authorization': f'OAuth {token}'})
WithAuthorization(headers, token) ==
    Update(headers, [k \in {"Authorization"} |-> "OAuth " \o token])

\* Dispatch that polls on 202 alone.
Dispatch_Only202(status_code) ==
    IF status_code = 200 THEN "return"
    ELSE IF status_code = 202 THEN "retry"
    ELSE "raise"

\* Dispatch that takes 200 for one more preparing status.
Dispatch_ReadyRetried(status_code) ==
    IF status_code \in {200, 201, 202} THEN "retry" ELSE "raise"

\* Dispatch that retries on every status but 200.
Dispatch_RetryOthers(status_code) ==
    IF status_code = 200 THEN "return" ELSE "retry"

\* Lines 44-51: what the loop does with a status code.
Dispatch(status_code) ==
    IF status_code = 200 THEN "return"
    ELSE IF status_code \in {201, 202} THEN "retry"
    ELSE "raise"

\* The loop without its except clause.
Caught_Nothing(exc) == FALSE

\* Lines 52-53: the only exception the loop catches.
Caught(exc) == exc = "ConnectionError"

----------------------------------------------------------------------------
(* AppMetrica.export, lines 104-107: decoding. *)

\* response.json() on the bodies of the model.
ParseJson(text) ==
    IF text = "[1]" THEN [ok |-> TRUE, doc |-> <<1>>]
    ELSE [ok |-> FALSE]

----------------------------------------------------------------------------
(* The inputs of the model. *)

Tokens == {"t0k3n", "s3cr3t"}

Resources == {EVENTS, INSTALLATIONS, "profiles", "push_tokens", "crashes"}

ApplicationIds == {"1111"}

FieldLists == {None, Some(<<"event_name">>), Some(<<"os_name", "event_name">>)}

DatesFrom ==
    {None, Some([year |-> 2024, month |-> 1, day |-> 2,
                 hour |-> 0, minute |-> 0, second |-> 0])}

DatesTo ==
    {None, Some([year |-> 2024, month |-> 11, day |-> 30,
                 hour |-> 23, minute |-> 59, second |-> 7])}

\* The keyword arguments: every choice of present keys, and of their values.
\* limit and date_since stand for the resource parameters passed through.
OptionValues ==
    [export_format |-> {"csv", "json", "xml"},
     cache_control |-> {"", "no-cache"},
     accept_encoding |-> {"", "gzip"},
     limit |-> {"10"},
     date_since |-> {"2020-02-20"}]

OptionKeys ==
    {"export_format", "cache_control", "accept_encoding", "limit",
     "date_since"}

Kwargs ==
    UNION {{kw \in [ks -> UNION {{Some(v) : v \in OptionValues[k]} : k \in ks}] :
               \A k \in ks : kw[k].val \in OptionValues[k]}
              : ks \in SUBSET OptionKeys}

WellTyped(kw) == \A k \in DOMAIN kw : kw[k].val \in OptionValues[k]

Bodies == {"a,b", "[1]", "forbidden"}

StatusCodes == {200, 201, 202, 403}

Exceptions == {"ConnectionError", "ChunkedEncodingError"}

\* The body of a 201 or 202 response, which the code never reads.
PreparingBodies == {"wait"}

Outcomes ==
    [kind : {"response"}, status_code : StatusCodes \ {201, 202}, text : Bodies]
        \cup [kind : {"response"}, status_code : StatusCodes \cap {201, 202},
              text : PreparingBodies]
        \cup [kind : {"exception"}, exc : Exceptions]

\* The outcome as the history keeps it: without the body.
Brief(o) ==
    IF o.kind = "response"
    THEN [kind |-> "response", status_code |-> o.status_code]
    ELSE o

----------------------------------------------------------------------------
(* The state machine. *)

Init ==
    /\ app_token \in Tokens
    /\ api_endpoint = ApiEndpoint
    /\ pc = "idle"
    /\ call = None
    /\ request = None
    /\ export_format = None
    /\ retry_count = 0
    /\ response = None
    /\ sent = <<>>
    /\ outcomes = <<>>
    /\ sleeps = <<>>
    /\ result = None
    /\ error = None

\* export(...) up to the call of _make_request and its lines 33-38.
Export ==
    /\ pc = "idle"
    /\ \E r \in Resources, a \in ApplicationIds, f \in FieldLists,
          df \in DatesFrom, dt \in DatesTo, kw \in Kwargs :
        /\ WellTyped(kw)
        /\ LET c == [resource |-> r, application_id |-> a, fields |-> f,
                     date_from |-> df, date_to |-> dt, kwargs |-> kw]
               asm == Assemble(api_endpoint, c)
           IN  /\ call' = Some(c)
               /\ IF asm.raised
                  THEN /\ pc' = "raised"
                       /\ error' = Some(asm.error)
                       /\ UNCHANGED <<request, export_format>>
                  ELSE /\ pc' = "request"
                       /\ request' = Some([url |-> asm.url,
                              params |-> asm.params,
                              headers |-> WithAuthorization(asm.headers,
                                                            app_token)])
                       /\ export_format' = Some(asm.export_format)
                       /\ UNCHANGED error
    /\ retry_count' = 0
    /\ UNCHANGED <<app_token, api_endpoint, response, sent, outcomes, sleeps,
                   result>>

\* Decode that parses JSON for the json format alone.
Decode_JsonOnly(fmt, text) ==
    IF fmt # "json" THEN [raised |-> FALSE, value |-> [text |-> text]]
    ELSE IF ParseJson(text).ok
         THEN [raised |-> FALSE, value |-> [json |-> ParseJson(text).doc]]
         ELSE [raised |-> TRUE,
               error |-> [type |-> "JSONDecodeError", args |-> <<text>>]]

\* Decode with the test of line 104 inverted.
Decode_Inverted(fmt, text) ==
    IF fmt # "csv" THEN [raised |-> FALSE, value |-> [text |-> text]]
    ELSE IF ParseJson(text).ok
         THEN [raised |-> FALSE, value |-> [json |-> ParseJson(text).doc]]
         ELSE [raised |-> TRUE,
               error |-> [type |-> "JSONDecodeError", args |-> <<text>>]]

\* Lines 104-107 of export: the value returned for a 200 response, or the
\* exception response.json() raises.
Decode(fmt, text) ==
    IF fmt = "csv" THEN [raised |-> FALSE, value |-> [text |-> text]]
    ELSE IF ParseJson(text).ok
         THEN [raised |-> FALSE, value |-> [json |-> ParseJson(text).doc]]
         ELSE [raised |-> TRUE,
               error |-> [type |-> "JSONDecodeError", args |-> <<text>>]]

\* One iteration of the while loop, lines 40-53: the GET and what follows it
\* up to the next blocking call, the return or the raise.
HttpGet ==
    /\ pc = "request"
    /\ sent' = Append(sent, request.val)
    /\ \E o \in Outcomes :
        /\ outcomes' = Append(outcomes, Brief(o))
        /\ IF o.kind = "exception"
           THEN /\ pc' = "raised"
                /\ error' = IF Caught(o.exc)
                            THEN Some(ClientError(<<"ConnectionError">>))
                            ELSE Some([type |-> o.exc, args |-> <<>>])
                /\ UNCHANGED <<retry_count, response, result>>
           ELSE /\ response' = Some([status_code |-> o.status_code,
                                     text |-> o.text])
                /\ CASE Dispatch(o.status_code) = "return" ->
                          LET d == Decode(export_format.val, o.text)
                          IN  /\ IF d.raised
                                 THEN /\ pc' = "raised"
                                      /\ error' = Some(d.error)
                                      /\ UNCHANGED result
                                 ELSE /\ pc' = "returned"
                                      /\ result' = Some(d.value)
                                      /\ UNCHANGED error
                              /\ UNCHANGED retry_count
                     [] Dispatch(o.status_code) = "retry" ->
                          /\ retry_count < MaxRetries
                          /\ retry_count' = retry_count + 1
                          /\ pc' = "sleeping"
                          /\ UNCHANGED <<result, error>>
                     [] OTHER ->
                          /\ pc' = "raised"
                          /\ error' = Some(ApiError(<<o.text>>))
                          /\ UNCHANGED <<retry_count, result>>
    /\ UNCHANGED <<app_token, api_endpoint, call, request, export_format,
                   sleeps>>

\* The loop with a maximum retry count: after the third sleep it gives up.
Sleep_Capped ==
    /\ pc = "sleeping"
    /\ sleeps' = Append(sleeps, Delay(retry_count))
    /\ IF retry_count < 3
       THEN pc' = "request" /\ UNCHANGED error
       ELSE pc' = "raised" /\ error' = Some([type |-> "TimeoutError", args |-> <<>>])
    /\ UNCHANGED <<app_token, api_endpoint, call, request, export_format,
                   retry_count, response, sent, outcomes, result>>

\* Line 49: sleep(base_delay * 2 ^ retry_count), then the loop goes round.
Sleep ==
    /\ pc = "sleeping"
    /\ sleeps' = Append(sleeps, Delay(retry_count))
    /\ pc' = "request"
    /\ UNCHANGED <<app_token, api_endpoint, call, request, export_format,
                   retry_count, response, sent, outcomes, result, error>>

Next == Export \/ HttpGet \/ Sleep

Spec == Init /\ [][Next]_vars

----------------------------------------------------------------------------
(* Vocabulary of the properties. *)

IsResponse(o, codes) == o.kind = "response" /\ o.status_code \in codes
IsPreparing(o) == IsResponse(o, {201, 202})
IsFailure(o) == o.kind = "response" /\ o.status_code \notin {200, 201, 202}
IsConnectionError(o) == o.kind = "exception" /\ o.exc = "ConnectionError"

Terminated == pc \in {"returned", "raised"}
Got200 == Len(outcomes) > 0 /\ IsResponse(outcomes[Len(outcomes)], {200})
AllPreparing(n) == \A j \in 1..n : IsPreparing(outcomes[j])

Called == ~call.isNone
Dispatched == ~request.isNone
Registered == call.val.resource \in DOMAIN RESOURCES_SCHEMA
DateExempt == call.val.resource \in {"profiles", "push_tokens"}
DatesComplete == ~call.val.date_from.isNone /\ ~call.val.date_to.isNone
RaisedBeforeDispatch == pc = "raised" /\ ~Dispatched /\ sent = <<>>
RaisedClientError ==
    pc = "raised" /\ error.val.type = "AppmetricaClientError"
NotExportable ==
    RaisedClientError
        /\ error.val.args
             = <<"resource not available for export", call.val.resource>>

----------------------------------------------------------------------------
(* C1: once a GET has been answered 200 the call is over: from then on no  *)
(* request is sent, no sleep happens and no further answer is received,    *)
(* whatever the number of retries before it.                               *)
C1_ReadyReturnsImmediately ==
    /\ [](Got200 => Terminated /\ response.val.status_code = 200)
    /\ [][Got200 => UNCHANGED <<sent, sleeps, outcomes>>]_vars

C1_Witness ==
    Got200 /\ pc = "returned" /\ Len(outcomes) = 3 /\ Len(sleeps) = 2

(* C2: when the answers are k preparing responses and then a 200, the call *)
(* has slept exactly k times and sent exactly k+1 GETs, and what export    *)
(* returns is the body of that 200 response (csv) or its parse (json).     *)
C2_PreparingThenReady ==
    \A k \in 0..MaxRetries :
        (Len(outcomes) = k + 1 /\ AllPreparing(k) /\ Got200)
            => /\ Len(sleeps) = k
               /\ Len(sent) = k + 1
               /\ retry_count = k
               /\ pc = "returned" =>
                    /\ response.val.status_code = 200
                    /\ export_format.val = "csv"
                         => result.val = [text |-> response.val.text]
                    /\ export_format.val # "csv"
                         => result.val
                              = [json |-> ParseJson(response.val.text).doc]

C2_Witness ==
    /\ pc = "returned"
    /\ outcomes = <<[kind |-> "response", status_code |-> 202],
                    [kind |-> "response", status_code |-> 202],
                    [kind |-> "response", status_code |-> 200]>>
    /\ Len(sleeps) = 2
    /\ result.val = [text |-> "a,b"]

(* C3: within one call every sleep is strictly longer than the one before. *)
C3_BackoffStrictlyIncreases ==
    \A n \in 1..(Len(sleeps) - 1) : sleeps[n + 1] > sleeps[n]

(* C4: a status other than 200, 201, 202 ends the call at once with an     *)
(* AppmetricaApiError carrying the body of that response; no request and   *)
(* no sleep follows it, also when preparing responses came before.         *)
C4_OtherStatusRaisesApiError ==
    \A i \in 1..Len(outcomes) :
        IsFailure(outcomes[i])
            => /\ i = Len(outcomes)
               /\ pc = "raised"
               /\ response.val.status_code = outcomes[i].status_code
               /\ error.val = [type |-> "AppmetricaApiError",
                               args |-> <<response.val.text>>]
               /\ Len(sent) = i
               /\ Len(sleeps) = i - 1
               /\ AllPreparing(i - 1)

C4_Witness ==
    /\ Len(outcomes) = 3
    /\ IsFailure(outcomes[3])
    /\ pc = "raised"
    /\ error.val.args = <<"forbidden">>
    /\ Len(sleeps) = 2

(* C5: a ConnectionError of the GET ends the call at once with an          *)
(* AppmetricaClientError, never an AppmetricaApiError; no request and no   *)
(* sleep follows it.                                                       *)
C5_ConnectionErrorRaisesClientError ==
    \A i \in 1..Len(outcomes) :
        IsConnectionError(outcomes[i])
            => /\ i = Len(outcomes)
               /\ pc = "raised"
               /\ error.val.type = "AppmetricaClientError"
               /\ error.val.type # "AppmetricaApiError"
               /\ Len(sent) = i
               /\ Len(sleeps) = i - 1

C5_Witness ==
    /\ Len(outcomes) = 2
    /\ IsConnectionError(outcomes[2])
    /\ RaisedClientError
    /\ Len(sent) = 2

(* C6: a call for a resource other than profiles and push_tokens that      *)
(* lacks date_from, date_to or both ends in an AppmetricaClientError and   *)
(* sends no request.                                                       *)
C6_DateRangeRequired ==
    (Called /\ ~DateExempt /\ ~DatesComplete)
        => RaisedClientError /\ RaisedBeforeDispatch

C6_Witness ==
    /\ Called /\ Registered /\ ~DatesComplete
    /\ ~call.val.date_from.isNone
    /\ RaisedBeforeDispatch
    /\ error.val = ClientError(<<"date range required", call.val.resource>>)

(* C7: a call for profiles or push_tokens without a date range raises      *)
(* nothing before the dispatch: the request reaches _make_request and its  *)
(* parameters hold neither date_since nor date_until. Stated for the calls *)
(* that give an explicit field list, which need no default from the        *)
(* registry.                                                               *)
C7_ExemptResourcesDispatch ==
    (Called /\ DateExempt /\ ~call.val.fields.isNone
            /\ call.val.date_from.isNone /\ call.val.date_to.isNone)
        => /\ ~RaisedBeforeDispatch
           /\ Dispatched
           /\ Dispatched =>
                {"date_since", "date_until"}
                    \cap DOMAIN request.val.params = {}

(* C8: an unregistered resource with an explicit field list does not fail  *)
(* on the registry lookup: only the defaulting of the fields needs the     *)
(* registry, so the request is assembled with the explicit fields and,     *)
(* when the resource is exempt from the date rule or the date range is     *)
(* complete, dispatched.                                                   *)
C8_ExplicitFieldsPassRegistry ==
    (Called /\ ~Registered /\ ~call.val.fields.isNone)
        => /\ ~NotExportable
           /\ (DateExempt \/ DatesComplete)
                => /\ Dispatched
                   /\ Dispatched =>
                        request.val.params["fields"]
                            = Join(call.val.fields.val)

(* C9: an unregistered resource without an explicit field list fails with  *)
(* the resource-not-available AppmetricaClientError and sends no request.  *)
C9_UnregisteredNoFieldsFailsFast ==
    (Called /\ ~Registered /\ call.val.fields.isNone)
        => NotExportable /\ RaisedBeforeDispatch

C9_Witness ==
    /\ Called /\ ~Registered /\ call.val.fields.isNone
    /\ DatesComplete
    /\ NotExportable /\ sent = <<>>

(* C10: for a registered resource the fields parameter of every request    *)
(* sent is the comma-join, in order, of the explicit field list when one   *)
(* is given, and of the resource's registered fields otherwise.            *)
C10_FieldsParameter ==
    (Called /\ Registered /\ Dispatched)
        => LET expected ==
                   IF ~call.val.fields.isNone THEN Join(call.val.fields.val)
                   ELSE IF call.val.resource = EVENTS
                        THEN "event_name,event_timestamp,os_name"
                        ELSE "install_datetime,os_name"
           IN  /\ request.val.params["fields"] = expected
               /\ \A i \in 1..Len(sent) : sent[i].params["fields"] = expected
               /\ call.val.fields = Some(<<"os_name", "event_name">>)
                    => expected = "os_name,event_name"

C10_Witness ==
    /\ Called /\ Registered /\ Len(sent) = 2
    /\ call.val.fields = Some(<<"os_name", "event_name">>)
    /\ call.val.resource = EVENTS
    /\ sent[2].params["fields"] = "os_name,event_name"

C10_WitnessDefault ==
    /\ Called /\ Registered /\ Len(sent) = 2
    /\ call.val.fields.isNone
    /\ call.val.resource = INSTALLATIONS
    /\ sent[2].params["fields"] = "install_datetime,os_name"

----------------------------------------------------------------------------
(* Vocabulary of the properties on the options of the call. *)

Supplied(k) == k \in DOMAIN call.val.kwargs
Option(k) == call.val.kwargs[k].val
SuppliedNonEmpty(k) == Supplied(k) /\ Option(k) # ""
GivenFormat == IF Supplied("export_format") THEN Option("export_format") ELSE "csv"
Consumed == {"export_format", "cache_control", "accept_encoding"}
PreparingCount == Cardinality({j \in 1..Len(outcomes) : IsPreparing(outcomes[j])})

(* C11: every request goes to {endpoint}/{resource}.{export_format}, csv   *)
(* when the option is omitted; a call that returns gives the raw body of   *)
(* the 200 response when that format is csv and the parsed JSON document   *)
(* for every other format.                                                 *)
C11_FormatSelectsUrlAndDecoding ==
    (Called /\ Dispatched)
        => LET url == "https://api.appmetrica.yandex.ru/logs/v1/export/"
                          \o call.val.resource \o "." \o GivenFormat
           IN  /\ request.val.url = url
               /\ \A i \in 1..Len(sent) : sent[i].url = url
               /\ (Got200 /\ GivenFormat = "csv") => pc = "returned"
               /\ pc = "returned" =>
                    /\ GivenFormat = "csv"
                         => result.val = [text |-> response.val.text]
                    /\ GivenFormat # "csv"
                         => /\ response.val.text = "[1]"
                            /\ result.val = [json |-> <<1>>]

C11_Witness ==
    /\ Called /\ pc = "returned"
    /\ GivenFormat = "xml"
    /\ call.val.resource = EVENTS
    /\ sent[1].url = "https://api.appmetrica.yandex.ru/logs/v1/export/events.xml"
    /\ result.val = [json |-> <<1>>]

\* The headers a call sends when `cc` and `ae` say which of Cache-Control
\* and Accept-Encoding are present.
HeadersWith(cc, ae) ==
    [k \in {"Authorization"}
            \cup (IF cc THEN {"Cache-Control"} ELSE {})
            \cup (IF ae THEN {"Accept-Encoding"} ELSE {}) |->
        IF k = "Authorization" THEN "OAuth " \o app_token
        ELSE IF k = "Cache-Control" THEN Option("cache_control")
        ELSE Option("accept_encoding")]

(* C12, as stated: every request sent carries Authorization: OAuth {token} *)
(* and, with the caller's value, Cache-Control exactly when cache_control  *)
(* was supplied and Accept-Encoding exactly when accept_encoding was       *)
(* supplied, and no other header.                                          *)
C12_Original ==
    \A i \in 1..Len(sent) :
        sent[i].headers
            = HeadersWith(Supplied("cache_control"), Supplied("accept_encoding"))

(* C12, amended: every request sent, retries included, carries             *)
(* Authorization: OAuth {token} and, with the caller's value,              *)
(* Cache-Control exactly when cache_control was supplied with a non-empty  *)
(* value and Accept-Encoding exactly when accept_encoding was supplied     *)
(* with a non-empty value, and no other header.                            *)
C12_HeadersOfEveryRequest ==
    \A i \in 1..Len(sent) :
        sent[i].headers
            = HeadersWith(SuppliedNonEmpty("cache_control"),
                          SuppliedNonEmpty("accept_encoding"))

C12_Witness ==
    /\ Len(sent) = 2
    /\ Supplied("cache_control") /\ Option("cache_control") = ""
    /\ SuppliedNonEmpty("accept_encoding")
    /\ app_token = "s3cr3t"
    /\ DOMAIN sent[2].headers = {"Authorization", "Accept-Encoding"}
    /\ sent[2].headers["Authorization"] = "OAuth s3cr3t"
    /\ sent[2].headers["Accept-Encoding"] = "gzip"

(* C13, as stated: the parameters of every request sent hold               *)
(* application_id and fields, hold every other option of the caller        *)
(* verbatim, and never hold export_format, cache_control or                *)
(* accept_encoding.                                                        *)
C13_Original ==
    \A i \in 1..Len(sent) :
        LET params == sent[i].params
        IN  /\ {"application_id", "fields"} \subseteq DOMAIN params
            /\ \A k \in (DOMAIN call.val.kwargs) \ Consumed :
                   k \in DOMAIN params /\ params[k] = Option(k)
            /\ Consumed \cap DOMAIN params = {}

(* C13, amended: the parameters of every request sent hold application_id  *)
(* and fields, never hold export_format, cache_control or accept_encoding  *)
(* (empty or not), and hold every other option of the caller verbatim,     *)
(* except an option named date_since or date_until: that key holds the     *)
(* formatted date_from or date_to instead.                                 *)
C13_QueryParameters ==
    \A i \in 1..Len(sent) :
        LET params == sent[i].params
        IN  /\ {"application_id", "fields"} \subseteq DOMAIN params
            /\ params["application_id"] = call.val.application_id
            /\ \A k \in (DOMAIN call.val.kwargs) \ Consumed :
                   /\ k \in DOMAIN params
                   /\ k \notin {"date_since", "date_until"}
                        => params[k] = Option(k)
            /\ Consumed \cap DOMAIN params = {}
            /\ params["date_since"] = strftime(call.val.date_from.val)
            /\ params["date_until"] = strftime(call.val.date_to.val)
            /\ DOMAIN params
                 = {"application_id", "fields", "date_since", "date_until"}
                       \cup ((DOMAIN call.val.kwargs) \ Consumed)

C13_Witness ==
    /\ Len(sent) = 2
    /\ DOMAIN call.val.kwargs = OptionKeys
    /\ Option("cache_control") = ""
    /\ sent[2].params["limit"] = "10"
    /\ sent[2].params["date_since"] = "2024-01-02 00:00:00"
    /\ sent[2].params["date_until"] = "2024-11-30 23:59:07"
    /\ DOMAIN sent[2].params
         = {"application_id", "fields", "limit", "date_since", "date_until"}

(* C15: every preparing response adds exactly 1 to the retry counter and   *)
(* exactly one sleep, keeps the call going, and every request sent after   *)
(* it has the url, parameters and headers of the first one.                *)
C15_PreparingRetriesIdenticalRequest ==
    Dispatched
        => /\ retry_count = PreparingCount
           /\ Len(sleeps) = PreparingCount - (IF pc = "sleeping" THEN 1 ELSE 0)
           /\ Len(sent) = Len(outcomes)
           /\ \A i \in 1..Len(sent) : sent[i] = sent[1] /\ sent[i] = request.val
           /\ \A i \in 1..Len(outcomes) :
                  IsPreparing(outcomes[i])
                      => IF i = Len(outcomes) THEN pc \in {"sleeping", "request"}
                         ELSE Len(sent) > i /\ Len(sleeps) >= i

C15_Witness ==
    /\ Len(sent) = 3
    /\ PreparingCount = 2 /\ retry_count = 2 /\ Len(sleeps) = 2
    /\ sent[3] = sent[1]
    /\ outcomes[1].status_code = 201 /\ outcomes[2].status_code = 202

(* C16: the loop has no maximum retry count: after n preparing responses   *)
(* and nothing else the call has neither returned nor raised; it is        *)
(* sleeping or about to send request n+1.                                  *)
C16_NoRetryLimit ==
    \A n \in 0..MaxRetries :
        (Dispatched /\ Len(outcomes) = n /\ AllPreparing(n))
            => /\ ~Terminated
               /\ result.isNone /\ error.isNone
               /\ Len(sent) = n
               /\ pc = "sleeping" => ENABLED Sleep
               /\ pc = "request" => Len(sleeps) = n /\ ENABLED HttpGet

C16_Witness ==
    /\ Len(outcomes) = MaxRetries /\ AllPreparing(MaxRetries)
    /\ pc = "request" /\ Len(sleeps) = MaxRetries

(* C17: a call that has got an answer other than 201/202 (a 200, another   *)
(* status or a connection failure) has ended in exactly one of: a returned *)
(* result, an AppmetricaApiError, an AppmetricaClientError.                *)
C17_TerminatesInOneOfThree ==
    (Len(outcomes) > 0
        /\ LET last == outcomes[Len(outcomes)]
           IN  (last.kind = "response" /\ ~IsPreparing(last))
                   \/ IsConnectionError(last))
        => /\ Terminated
           /\ pc = "raised" =>
                error.val.type
                    \in {"AppmetricaApiError", "AppmetricaClientError"}

\* The sleeps of one call, as Python computes 10 * 2 ^ n for n = 1, 2, ...
XorSleeps == <<21, 22, 23, 16, 17, 18, 19, 28>>

(* C18: the n-th sleep of a call lasts (20 xor n) seconds: 21, 22, 23, 16, *)
(* ... which is not 10 * 2**n and does not grow monotonically.             *)
C18_DelayIsXor ==
    /\ Len(sleeps) <= Len(XorSleeps)
    /\ sleeps = SubSeq(XorSleeps, 1, Len(sleeps))
    /\ \A n \in 1..Len(sleeps) : sleeps[n] # 10 * (2 ^ n)
    /\ Len(sleeps) >= 4 => sleeps[4] < sleeps[3]

C18_Witness ==
    Len(sleeps) = 4 /\ sleeps = <<21, 22, 23, 16>>

(* C19: the registry check comes before the date range check and both      *)
(* before any request: a call with an unregistered resource and an         *)
(* incomplete date range raises the resource error, a call with a          *)
(* registered resource and an incomplete date range raises the date range  *)
(* error, and neither sends a request.                                     *)
C19_RegistryCheckBeforeDateRule ==
    (Called /\ ~DatesComplete)
        => /\ RaisedBeforeDispatch
           /\ outcomes = <<>> /\ sleeps = <<>>
           /\ ~Registered => NotExportable
           /\ Registered =>
                error.val
                    = ClientError(<<"date range required", call.val.resource>>)

C19_Witness ==
    /\ Called /\ ~Registered /\ ~DateExempt /\ ~DatesComplete
    /\ NotExportable
    /\ sent = <<>>

----------------------------------------------------------------------------
(* Concurrent calls on one client.  The same variables, but the ones that  *)
(* belong to a call (all but app_token and api_endpoint) are functions     *)
(* from the calling thread: each thread has its own frame of export and    *)
(* _make_request, with its own locals, params and headers dicts.  The      *)
(* attributes of self are the only data the threads have in common.        *)

Threads == {1, 2}

\* The calls the threads choose from.
ConcCalls ==
    {[resource |-> EVENTS, application_id |-> "1111", fields |-> None,
      date_from |-> Some([year |-> 2024, month |-> 1, day |-> 2,
                          hour |-> 0, minute |-> 0, second |-> 0]),
      date_to |-> Some([year |-> 2024, month |-> 11, day |-> 30,
                        hour |-> 23, minute |-> 59, second |-> 7]),
      kwargs |-> EmptyDict],
     [resource |-> INSTALLATIONS, application_id |-> "1111",
      fields |-> Some(<<"os_name", "event_name">>),
      date_from |-> Some([year |-> 2024, month |-> 1, day |-> 2,
                          hour |-> 0, minute |-> 0, second |-> 0]),
      date_to |-> Some([year |-> 2024, month |-> 11, day |-> 30,
                        hour |-> 23, minute |-> 59, second |-> 7]),
      kwargs |-> [k \in {"export_format", "cache_control"} |->
                     IF k = "export_format" THEN Some("json")
                     ELSE Some("no-cache")]],
     [resource |-> "profiles", application_id |-> "1111", fields |-> None,
      date_from |-> None, date_to |-> None, kwargs |-> EmptyDict]}

\* retry_count += 1 with retry_count an attribute of the client, common to
\* all calls, instead of a local of _make_request.
BumpRetry_Shared(rc, t) == [u \in DOMAIN rc |-> rc[t] + 1]

\* Line 48: retry_count += 1 on the local of the frame of thread t.
BumpRetry(rc, t) == [rc EXCEPT ![t] = @ + 1]

InitConc ==
    /\ app_token \in Tokens
    /\ api_endpoint = ApiEndpoint
    /\ pc = [t \in Threads |-> "idle"]
    /\ call = [t \in Threads |-> None]
    /\ request = [t \in Threads |-> None]
    /\ export_format = [t \in Threads |-> None]
    /\ retry_count = [t \in Threads |-> 0]
    /\ response = [t \in Threads |-> None]
    /\ sent = [t \in Threads |-> <<>>]
    /\ outcomes = [t \in Threads |-> <<>>]
    /\ sleeps = [t \in Threads |-> <<>>]
    /\ result = [t \in Threads |-> None]
    /\ error = [t \in Threads |-> None]

\* Thread t calls export: lines 55-102 and 33-38.
ExportT(t) ==
    /\ pc[t] = "idle"
    /\ \E c \in ConcCalls :
        LET asm == Assemble(api_endpoint, c)
        IN  /\ call' = [call EXCEPT ![t] = Some(c)]
            /\ IF asm.raised
               THEN /\ pc' = [pc EXCEPT ![t] = "raised"]
                    /\ error' = [error EXCEPT ![t] = Some(asm.error)]
                    /\ UNCHANGED <<request, export_format>>
               ELSE /\ pc' = [pc EXCEPT ![t] = "request"]
                    /\ request' = [request EXCEPT ![t] =
                           Some([url |-> asm.url,
                                 params |-> asm.params,
                                 headers |-> WithAuthorization(asm.headers,
                                                               app_token)])]
                    /\ export_format' =
                           [export_format EXCEPT ![t] = Some(asm.export_format)]
                    /\ UNCHANGED error
    /\ UNCHANGED <<app_token, api_endpoint, retry_count, response, sent,
                   outcomes, sleeps, result>>

\* One iteration of the loop of thread t, lines 40-53, and lines 104-107.
HttpGetT(t) ==
    /\ pc[t] = "request"
    /\ sent' = [sent EXCEPT ![t] = Append(@, request[t].val)]
    /\ \E o \in Outcomes :
        /\ outcomes' = [outcomes EXCEPT ![t] = Append(@, Brief(o))]
        /\ IF o.kind = "exception"
           THEN /\ pc' = [pc EXCEPT ![t] = "raised"]
                /\ error' = [error EXCEPT ![t] =
                       IF Caught(o.exc)
                       THEN Some(ClientError(<<"ConnectionError">>))
                       ELSE Some([type |-> o.exc, args |-> <<>>])]
                /\ UNCHANGED <<retry_count, response, result>>
           ELSE /\ response' = [response EXCEPT ![t] =
                       Some([status_code |-> o.status_code, text |-> o.text])]
                /\ CASE Dispatch(o.status_code) = "return" ->
                          LET d == Decode(export_format[t].val, o.text)
                          IN  /\ IF d.raised
                                 THEN /\ pc' = [pc EXCEPT ![t] = "raised"]
                                      /\ error' = [error EXCEPT ![t] = Some(d.error)]
                                      /\ UNCHANGED result
                                 ELSE /\ pc' = [pc EXCEPT ![t] = "returned"]
                                      /\ result' = [result EXCEPT ![t] = Some(d.value)]
                                      /\ UNCHANGED error
                              /\ UNCHANGED retry_count
                     [] Dispatch(o.status_code) = "retry" ->
                          /\ retry_count[t] < MaxConcRetries
                          /\ retry_count' = BumpRetry(retry_count, t)
                          /\ pc' = [pc EXCEPT ![t] = "sleeping"]
                          /\ UNCHANGED <<result, error>>
                     [] OTHER ->
                          /\ pc' = [pc EXCEPT ![t] = "raised"]
                          /\ error' = [error EXCEPT ![t] = Some(ApiError(<<o.text>>))]
                          /\ UNCHANGED <<retry_count, result>>
    /\ UNCHANGED <<app_token, api_endpoint, call, request, export_format,
                   sleeps>>

\* Line 49 in thread t: the sleep blocks that thread alone.
SleepT(t) ==
    /\ pc[t] = "sleeping"
    /\ sleeps' = [sleeps EXCEPT ![t] = Append(@, Delay(retry_count[t]))]
    /\ pc' = [pc EXCEPT ![t] = "request"]
    /\ UNCHANGED <<app_token, api_endpoint, call, request, export_format,
                   retry_count, response, sent, outcomes, result, error>>

NextConc == \E t \in Threads : ExportT(t) \/ HttpGetT(t) \/ SleepT(t)

SpecConc == InitConc /\ [][NextConc]_vars

\* What one call is left with after the answers `os` to its own requests,
\* the last with body `text`, when it runs alone: the state of the frame
\* as a function of the call's arguments and of those answers only.
Alone(token, c, os, text, slept) ==
    LET asm == Assemble(ApiEndpoint, c)
        n == Len(os)
        req == [url |-> asm.url, params |-> asm.params,
                headers |-> WithAuthorization(asm.headers, token)]
        last == os[n]
        k == Cardinality({j \in 1..n : IsPreparing(os[j])})
        base == [request |-> Some(req), sent |-> [j \in 1..n |-> req],
                 retry_count |-> k,
                 sleeps |-> SubSeq(XorSleeps, 1, IF slept THEN k ELSE k - 1)]
    IN  IF asm.raised
        THEN [pc |-> "raised", error |-> Some(asm.error), result |-> None,
              request |-> None, sent |-> <<>>, retry_count |-> 0,
              sleeps |-> <<>>]
        ELSE IF n = 0
        THEN [pc |-> "request", error |-> None, result |-> None,
              request |-> Some(req), sent |-> <<>>, retry_count |-> 0,
              sleeps |-> <<>>]
        ELSE IF IsPreparing(last)
        THEN [pc |-> IF slept THEN "request" ELSE "sleeping",
              error |-> None, result |-> None] @@ base
        ELSE IF IsResponse(last, {200})
        THEN IF asm.export_format = "csv"
             THEN [pc |-> "returned", error |-> None,
                   result |-> Some([text |-> text])] @@ base
             ELSE IF text = "[1]"
             THEN [pc |-> "returned", error |-> None,
                   result |-> Some([json |-> <<1>>])] @@ base
             ELSE [pc |-> "raised", result |-> None,
                   error |-> Some([type |-> "JSONDecodeError",
                                   args |-> <<text>>])] @@ base
        ELSE IF IsFailure(last)
        THEN [pc |-> "raised", result |-> None,
              error |-> Some(ApiError(<<text>>))] @@ base
        ELSE IF IsConnectionError(last)
        THEN [pc |-> "raised", result |-> None,
              error |-> Some(ClientError(<<"ConnectionError">>))] @@ base
        ELSE [pc |-> "raised", result |-> None,
              error |-> Some([type |-> last.exc, args |-> <<>>])] @@ base

\* The frame of thread t, to compare with Alone.
Frame(t) ==
    [pc |-> pc[t], error |-> error[t], result |-> result[t],
     request |-> request[t], sent |-> sent[t],
     retry_count |-> retry_count[t], sleeps |-> sleeps[t]]

(* C14: with two calls running concurrently on one client, under every     *)
(* interleaving the retry counter, the sleeps, the requests and the        *)
(* outcome of each call are those of the call running alone on the         *)
(* answers to its own requests, and no step changes the token or the       *)
(* endpoint of the client.                                                 *)
C14_ConcurrentCallsIndependent ==
    /\ [](\A t \in Threads :
            ~call[t].isNone =>
                Frame(t) = Alone(app_token, call[t].val, outcomes[t],
                                 IF response[t].isNone THEN ""
                                 ELSE response[t].val.text,
                                 pc[t] # "sleeping"))
    /\ [](api_endpoint = ApiEndpoint)
    /\ [][app_token' = app_token /\ api_endpoint' = api_endpoint]_vars

C14_Witness ==
    /\ ~call[1].isNone /\ ~call[2].isNone
    /\ call[1].val.resource = EVENTS /\ call[2].val.resource = INSTALLATIONS
    /\ pc[1] = "sleeping" /\ retry_count[1] = 2 /\ sleeps[1] = <<21>>
    /\ pc[2] = "returned" /\ retry_count[2] = 1 /\ sleeps[2] = <<21>>
    /\ Len(sent[1]) = 2 /\ Len(sent[2]) = 2
    /\ sent[1][2].url # sent[2][2].url

====
